---- MODULE Spec2Model ----
(***************************************************************************)
(* Model of pyadtsecurehome/client.py: the PyAdtSecureHome API client.     *)
(*                                                                         *)
(* Every public operation binds _params to the module-level dictionary     *)
(* STD_PARAMS (an alias, `_params = STD_PARAMS`), stores its own items in  *)
(* it, issues one HTTP request over the client's session and translates    *)
(* the transport's answer into a returned payload or a raised exception.   *)
(* The transport (the requests library and the server behind it) is the    *)
(* environment: each call draws the transport's answer from TransportResults. *)
(* Python's None is the string "None"; bool and int arguments are written  *)
(* as the strings Python prints for them.                                  *)
(***************************************************************************)
EXTENDS Integers, FiniteSets, Sequences, TLC

VARIABLES
    STD_PARAMS,   \* the module-level dictionary constants.STD_PARAMS
    email,        \* self._email of each client
    password,     \* self._password of each client
    token,        \* self._token of each client
    timeout,      \* self._timeout of each client
    session,      \* self._session of each client: an index into sessions
    sessions,     \* every requests session the process has created
    last,         \* the latest call: the request made and what the caller got
    calls         \* number of calls made so far

vars == <<STD_PARAMS, email, password, token, timeout, session, sessions, last, calls>>

(***************************************************************************)
(* Bounds and input sets                                                   *)
(***************************************************************************)

\* Number of calls (operations and constructions) explored in a run.
MaxCalls == 2

\* Two independent client instances living in one process.
Clients == {"A", "B"}

None == "None"

DEFAULT_TIMEOUT == 25

\* The arguments a caller gives the constructor of client c.
CtorEmail(c) == IF c = "A" THEN "emailA" ELSE "emailB"
CtorPassword(c) == IF c = "A" THEN "passwordA" ELSE "passwordB"
\* Client A is constructed without a token, client B with one supplied by the caller.
CtorToken(c) == IF c = "A" THEN None ELSE "ctortokenB"
CtorTimeout(c) == IF c = "A" THEN DEFAULT_TIMEOUT ELSE 5

\* The token the server issues to client c on login.
ServerToken(c) == IF c = "A" THEN "servertokenA" ELSE "servertokenB"

\* Arguments of the operations that take some.
GcmIds == {"gcm1"}
SiteIds == {"1"}
PartitionIds == {"2"}
NewCodes == {"1234"}
StoreFors == {"Arm", "Bypass", "Invalid", None}
Arms == {"True", "False"}
Pins == {"1111"}

(***************************************************************************)
(* Dictionaries                                                            *)
(***************************************************************************)

EmptyDict == [k \in {} |-> None]

\* d[k] = v on a Python dict, as a new value.
SetItem(d, k, v) == [x \in (DOMAIN d) \cup {k} |-> IF x = k THEN v ELSE d[x]]

\* constants.STD_PARAMS as imported: the fields sent on every call.
StdParamsInit == [k \in {"imei"} |-> "imei0"]

BaseFields == DOMAIN StdParamsInit

(***************************************************************************)
(* Endpoints                                                               *)
(***************************************************************************)

BASE_URL == "ids.trintel.co.za/Inhep-Impl-1.0-SNAPSHOT/"

Operations ==
    {"login", "check_app_version", "site_notifications", "get_sync_info",
     "get_state_info", "get_notification_subscriptions", "get_user_preferences",
     "get_security_companies", "store_gcm_registrationid", "set_user_preference",
     "arm_site"}

Endpoint(op) ==
    CASE op = "login" -> "/auth/login"
      [] op = "check_app_version" -> "/auth/checkAppVersion"
      [] op = "site_notifications" -> "/device/getSiteNotifications"
      [] op = "get_sync_info" -> "/device/getSyncInfo"
      [] op = "get_state_info" -> "/device/getStateInfo"
      [] op = "get_notification_subscriptions" -> "/device/getNotificationSubscriptions"
      [] op = "get_user_preferences" -> "/user/getUserPreferences"
      [] op = "set_user_preference" -> "/user/setUserPreference"
      [] op = "get_security_companies" -> "/security-companies/list"
      [] op = "store_gcm_registrationid" -> "/user/storeGcmRegistrationId"
      [] op = "arm_site" -> "/device/armSite"

\* "https://" + BASE_URL + API_ENDPOINT_..., for every operation.
Urls == [op \in Operations |-> "https://" \o BASE_URL \o Endpoint(op)]

Url(op) == Urls[op]

\* self._session.post for the two writing calls, self._session.get otherwise.
Method(op) ==
    IF op \in {"store_gcm_registrationid", "set_user_preference"} THEN "POST" ELSE "GET"

\* The text each operation puts in front of a payload whose status is not SUCCESS.
ErrorPrefix(op) ==
    CASE op = "login" -> "Login error: "
      [] op = "check_app_version" -> "Error checking app version from api: "
      [] op = "site_notifications" -> "Error getting site notifications from api: "
      [] op = "get_sync_info" -> "Error getting sync info from api: "
      [] op = "get_state_info" -> "Error getting state info from api: "
      [] op = "get_notification_subscriptions" -> "Error getting notification subscriptions: "
      [] op = "get_user_preferences" -> "Error getting user preferences: "
      [] op = "get_security_companies" -> "Failed to get security companies: "
      [] op = "store_gcm_registrationid" -> "Storing gcm id failed with: "
      [] op = "set_user_preference" -> "Set user preferance failed with: "
      [] op = "arm_site" -> "Arm site failed: "

(***************************************************************************)
(* The transport: what self._session.get / .post can answer                *)
(***************************************************************************)

\* Exceptions the transport raises instead of answering.
TransportExceptions == {"ConnectionError", "ProxyError", "ConnectTimeout", "ReadTimeout"}

\* The classes an exception is an instance of (requests.exceptions).
Mro(exc) ==
    CASE exc = "ConnectionError" -> {"ConnectionError", "RequestException"}
      [] exc = "ProxyError" -> {"ProxyError", "ConnectionError", "RequestException"}
      [] exc = "ConnectTimeout" ->
            {"ConnectTimeout", "ConnectionError", "Timeout", "RequestException"}
      [] exc = "ReadTimeout" -> {"ReadTimeout", "Timeout", "RequestException"}
      [] exc = "HTTPError" -> {"HTTPError", "RequestException"}
      [] OTHER -> {exc}

\* Status codes of a response: success, redirect, and both ends of 4xx..5xx.
StatusCodes == {200, 301, 400, 599}

\* Response bodies, as text.
BodyNotJson == "<html>Bad Gateway</html>"
BodyEmpty == "{}"
BodyFailed == "{\"status\": \"FAILED\", \"message\": \"denied\"}"
BodySuccess == "{\"status\": \"SUCCESS\"}"
BodySuccessToken(c) ==
    IF c = "A" THEN "{\"status\": \"SUCCESS\", \"token\": \"servertokenA\"}"
    ELSE "{\"status\": \"SUCCESS\", \"token\": \"servertokenB\"}"

Bodies(c) == {BodyNotJson, BodyEmpty, BodyFailed, BodySuccess, BodySuccessToken(c)}

\* What a call by client c can get from the transport: an exception, a 200
\* response with any of the bodies, or a redirect or error response whose
\* body is not JSON, a failure payload or a success payload.
AllTransportResults ==
    [c \in Clients |->
        [kind : {"exception"}, exc : TransportExceptions, status_code : {0}, text : {""}]
        \cup
        [kind : {"response"}, exc : {""}, status_code : {200}, text : Bodies(c)]
        \cup
        [kind : {"response"}, exc : {""}, status_code : StatusCodes \ {200},
         text : {BodyNotJson, BodyFailed, BodySuccessToken(c)}]]

TransportResults(c) == AllTransportResults[c]

NoResult == [kind |-> "none", exc |-> "", status_code |-> 0, text |-> ""]

(***************************************************************************)
(* Response handling shared by every operation                             *)
(***************************************************************************)

\* json.loads on each of the bodies.
Parsed ==
    [text \in UNION {Bodies(c) : c \in Clients} |->
        CASE text = BodyEmpty -> [ok |-> TRUE, value |-> EmptyDict]
          [] text = BodyFailed ->
                [ok |-> TRUE, value |-> [status |-> "FAILED", message |-> "denied"]]
          [] text = BodySuccess -> [ok |-> TRUE, value |-> [status |-> "SUCCESS"]]
          [] text = BodySuccessToken("A") ->
                [ok |-> TRUE, value |-> [status |-> "SUCCESS", token |-> "servertokenA"]]
          [] text = BodySuccessToken("B") ->
                [ok |-> TRUE, value |-> [status |-> "SUCCESS", token |-> "servertokenB"]]
          [] OTHER -> [ok |-> FALSE, value |-> EmptyDict]]

\* req.json(): the parsed body; ok is FALSE where it raises ValueError.
json(text) == Parsed[text]

NoJson == [ok |-> FALSE, value |-> EmptyDict]

Return(j) == [kind |-> "return", exc |-> "", msg |-> "", text |-> "", payload |-> j]

Raise(exc, msg, text, j) ==
    [kind |-> "raise", exc |-> exc, msg |-> msg, text |-> text, payload |-> j]

NoOutcome == [kind |-> "none", exc |-> "", msg |-> "", text |-> "", payload |-> NoJson]

\* What logout and close_session give back.
ReturnNone == Return(NoJson)

\* Response.raise_for_status(): raises HTTPError for 4xx and 5xx.
raise_for_status(status_code) == 400 <= status_code /\ status_code < 600

ExceptClausesGeneric(exc) ==
    IF "ConnectionError" \in Mro(exc)
    THEN Raise("PyAdtSecureHomeError", "A Invalid URL or Proxy error occured", "", NoJson)
    ELSE IF "HTTPError" \in Mro(exc)
    THEN Raise("HTTPError", "", "", NoJson)
    ELSE Raise(exc, "", "", NoJson)

\* except requests.ConnectionError ... except requests.HTTPError ...;
\* an exception neither clause matches leaves the call as it is.
ExceptClauses(exc) ==
    IF "ConnectionError" \in Mro(exc)
    THEN Raise("InvalidURL", "A Invalid URL or Proxy error occured", "", NoJson)
    ELSE IF "HTTPError" \in Mro(exc)
    THEN Raise("HTTPError", "", "", NoJson)
    ELSE Raise(exc, "", "", NoJson)

CheckStatusSkipped(op, j) ==
    IF "status" \notin DOMAIN j.value THEN Raise("KeyError", "status", "", NoJson)
    ELSE Return(j)

\* if _json_result["status"] != "SUCCESS": raise ... ; return _json_result
CheckStatus(op, j) ==
    IF "status" \notin DOMAIN j.value THEN Raise("KeyError", "status", "", NoJson)
    ELSE IF j.value["status"] # "SUCCESS"
    THEN Raise("PyAdtSecureHomeError", ErrorPrefix(op), "", j)
    ELSE Return(j)

\* try: _json_result = req.json() except ValueError: raise PyAdtSecureHomeError(...)
Decode(op, text) ==
    IF ~json(text).ok
    THEN Raise("PyAdtSecureHomeError", "Impossible to decode response: ", text, NoJson)
    ELSE CheckStatus(op, json(text))

RespondDecodeFirst(op, res) ==
    IF res.kind = "exception" THEN ExceptClauses(res.exc)
    ELSE IF ~json(res.text).ok THEN Decode(op, res.text)
    ELSE IF raise_for_status(res.status_code) THEN ExceptClauses("HTTPError")
    ELSE Decode(op, res.text)

\* From the request to the status check: the part every operation repeats.
Respond(op, res) ==
    IF res.kind = "exception" THEN ExceptClauses(res.exc)
    ELSE IF raise_for_status(res.status_code) THEN ExceptClauses("HTTPError")
    ELSE Decode(op, res.text)

\* self._token = _json_result["token"], reached when the status check passed.
LoginOutcome(res) ==
    LET out == Respond("login", res) IN
    IF out.kind = "return" /\ "token" \notin DOMAIN out.payload.value
    THEN Raise("KeyError", "token", "", NoJson)
    ELSE out

LoginTokenKept(old, res) == old

LoginToken(old, res) ==
    LET out == LoginOutcome(res) IN
    IF out.kind = "return" THEN out.payload.value["token"] ELSE old

(***************************************************************************)
(* Sessions                                                                *)
(***************************************************************************)

NoSession == 0

\* requests.session() followed by headers.update(REQUEST_HEADER)
NewSession == [closed |-> FALSE, headers |-> {"default", "REQUEST_HEADER"}]

CloseSessionNotReopened(cur, ss) ==
    LET closed == IF cur # NoSession THEN [ss EXCEPT ![cur].closed = TRUE] ELSE ss
    IN  IF cur # NoSession
        THEN [session |-> cur, sessions |-> closed]
        ELSE [session |-> Len(closed) + 1, sessions |-> Append(closed, NewSession)]

\* close_session on a client whose _session is cur, in a process whose
\* sessions are ss: the client's new _session and the process's sessions.
CloseSession(cur, ss) ==
    LET closed == IF cur # NoSession THEN [ss EXCEPT ![cur].closed = TRUE] ELSE ss
    IN  [session |-> Len(closed) + 1, sessions |-> Append(closed, NewSession)]

(***************************************************************************)
(* The record of the latest call: what the transport was given and what    *)
(* the caller got back                                                     *)
(***************************************************************************)

NoRequest ==
    [made |-> FALSE, method |-> "", url |-> "", params |-> EmptyDict,
     timeout |-> 0, allow_redirects |-> FALSE, session |-> NoSession]

Request(c, op, params) ==
    [made |-> TRUE, method |-> Method(op), url |-> Url(op), params |-> params,
     timeout |-> timeout[c], allow_redirects |-> FALSE, session |-> session[c]]

Call(c, op, args, req, res, out) ==
    [client |-> c, op |-> op, args |-> args, request |-> req, result |-> res,
     outcome |-> out]

(***************************************************************************)
(* Initial state: clients A and B constructed, in that order               *)
(***************************************************************************)

Init ==
    /\ STD_PARAMS = StdParamsInit
    /\ email = [c \in Clients |-> CtorEmail(c)]
    /\ password = [c \in Clients |-> CtorPassword(c)]
    /\ token = [c \in Clients |-> CtorToken(c)]
    /\ timeout = [c \in Clients |-> CtorTimeout(c)]
    /\ session = [c \in Clients |-> IF c = "A" THEN 1 ELSE 2]
    /\ sessions = CloseSession(NoSession, CloseSession(NoSession, <<>>).sessions).sessions
    /\ last = Call("B", "__init__", EmptyDict, NoRequest, NoResult, ReturnNone)
    /\ calls = 0

(***************************************************************************)
(* Operations                                                              *)
(***************************************************************************)

\* __init__: the caller replaces client c by a newly constructed one.
PyAdtSecureHome(c) ==
    /\ calls < MaxCalls
    /\ calls' = calls + 1
    /\ LET cs == CloseSession(NoSession, sessions)
           tok == CtorToken(c)
           to == CtorTimeout(c)
       IN
        /\ email' = [email EXCEPT ![c] = CtorEmail(c)]
        /\ password' = [password EXCEPT ![c] = CtorPassword(c)]
        /\ session' = [session EXCEPT ![c] = cs.session]
        /\ sessions' = cs.sessions
        /\ token' = [token EXCEPT ![c] = tok]
        /\ timeout' = [timeout EXCEPT ![c] = to]
        /\ last' = Call(c, "__init__", EmptyDict, NoRequest, NoResult, ReturnNone)
    /\ UNCHANGED STD_PARAMS

login(c) ==
    /\ calls < MaxCalls
    /\ calls' = calls + 1
    /\ LET p1 == SetItem(STD_PARAMS, "email", email[c])
           p2 == SetItem(p1, "password", password[c])
           req == Request(c, "login", p2)
       IN  /\ STD_PARAMS' = p2
           /\ \E res \in TransportResults(c) :
                /\ token' = [token EXCEPT ![c] = LoginToken(token[c], res)]
                /\ last' = Call(c, "login", EmptyDict, req, res, LoginOutcome(res))
    /\ UNCHANGED <<email, password, timeout, session, sessions>>

check_app_version(c) ==
    /\ calls < MaxCalls
    /\ calls' = calls + 1
    /\ LET p1 == SetItem(STD_PARAMS, "token", token[c])
           p2 == SetItem(p1, "clientImei", p1["imei"])
           op == "check_app_version"
           req == Request(c, op, p2)
       IN  /\ STD_PARAMS' = p2
           /\ \E res \in TransportResults(c) :
                last' = Call(c, op, EmptyDict, req, res, Respond(op, res))
    /\ UNCHANGED <<email, password, token, timeout, session, sessions>>

\* The six operations whose only item is the token.
TokenOnly(c, op) ==
    /\ calls < MaxCalls
    /\ calls' = calls + 1
    /\ LET p1 == SetItem(STD_PARAMS, "token", token[c])
           req == Request(c, op, p1)
       IN  /\ STD_PARAMS' = p1
           /\ \E res \in TransportResults(c) :
                last' = Call(c, op, EmptyDict, req, res, Respond(op, res))
    /\ UNCHANGED <<email, password, token, timeout, session, sessions>>

site_notifications(c) == TokenOnly(c, "site_notifications")

get_sync_info(c) == TokenOnly(c, "get_sync_info")

get_state_info(c) == TokenOnly(c, "get_state_info")

get_notification_subscriptions(c) == TokenOnly(c, "get_notification_subscriptions")

get_user_preferences(c) == TokenOnly(c, "get_user_preferences")

get_security_companies(c) == TokenOnly(c, "get_security_companies")

store_gcm_registrationid(c) ==
    /\ calls < MaxCalls
    /\ calls' = calls + 1
    /\ \E gcm_id \in GcmIds :
        LET p1 == SetItem(STD_PARAMS, "token", token[c])
            p2 == SetItem(p1, "gcmId", gcm_id)
            op == "store_gcm_registrationid"
            args == [gcm_id |-> gcm_id]
            req == Request(c, op, p2)
        IN  /\ STD_PARAMS' = p2
            /\ \E res \in TransportResults(c) :
                 last' = Call(c, op, args, req, res, Respond(op, res))
    /\ UNCHANGED <<email, password, token, timeout, session, sessions>>

StoreForNotNone(store_for) == store_for # None

\* if store_for not in ["Arm", "Bypass"]
StoreForValid(store_for) == store_for \in {"Arm", "Bypass"}

\* "site." + site_id + ".partition." + partition_id + ".storeFor" + store_for
PreferenceNames ==
    [site_id \in SiteIds, partition_id \in PartitionIds, store_for \in StoreFors |->
        "site." \o site_id \o ".partition." \o partition_id \o ".storeFor" \o store_for]

PreferenceName(site_id, partition_id, store_for) ==
    PreferenceNames[site_id, partition_id, store_for]

set_user_preference(c) ==
    /\ calls < MaxCalls
    /\ calls' = calls + 1
    /\ \E site_id \in SiteIds, partition_id \in PartitionIds,
          new_code \in NewCodes, store_for \in StoreFors :
        LET op == "set_user_preference"
            args == [site_id |-> site_id, partition_id |-> partition_id,
                     new_code |-> new_code, store_for |-> store_for]
        IN
        IF ~StoreForValid(store_for)
        THEN /\ last' = Call(c, op, args, NoRequest, NoResult,
                             Raise("PyAdtSecureHomeError",
                                   "Invalid selection, choose between Arm or Bypass",
                                   "", NoJson))
             /\ UNCHANGED STD_PARAMS
        ELSE LET p1 == SetItem(STD_PARAMS, "token", token[c])
                 p2 == SetItem(p1, "siteId", site_id)
                 p3 == SetItem(p2, "name", PreferenceName(site_id, partition_id, store_for))
                 p4 == SetItem(p3, "preference_value", new_code)
                 req == Request(c, op, p4)
             IN  /\ STD_PARAMS' = p4
                 /\ \E res \in TransportResults(c) :
                      last' = Call(c, op, args, req, res, Respond(op, res))
    /\ UNCHANGED <<email, password, token, timeout, session, sessions>>

arm_site(c) ==
    /\ calls < MaxCalls
    /\ calls' = calls + 1
    /\ \E arm \in Arms, pin \in Pins, partition_id \in PartitionIds, site_id \in SiteIds :
        LET p1 == SetItem(STD_PARAMS, "token", token[c])
            p2 == SetItem(p1, "arm", arm)
            p3 == SetItem(p2, "pin", pin)
            p4 == SetItem(p3, "partitionId", partition_id)
            p5 == SetItem(p4, "siteId", site_id)
            op == "arm_site"
            args == [arm |-> arm, pin |-> pin, partition_id |-> partition_id,
                     site_id |-> site_id]
            req == Request(c, op, p5)
        IN  /\ STD_PARAMS' = p5
            /\ \E res \in TransportResults(c) :
                 last' = Call(c, op, args, req, res, Respond(op, res))
    /\ UNCHANGED <<email, password, token, timeout, session, sessions>>

close_session(c) ==
    /\ calls < MaxCalls
    /\ calls' = calls + 1
    /\ LET cs == CloseSession(session[c], sessions) IN
        /\ session' = [session EXCEPT ![c] = cs.session]
        /\ sessions' = cs.sessions
    /\ last' = Call(c, "close_session", EmptyDict, NoRequest, NoResult, ReturnNone)
    /\ UNCHANGED <<STD_PARAMS, email, password, token, timeout>>

logout(c) ==
    /\ calls < MaxCalls
    /\ calls' = calls + 1
    /\ LET cs == CloseSession(session[c], sessions) IN
        /\ session' = [session EXCEPT ![c] = cs.session]
        /\ sessions' = cs.sessions
    /\ last' = Call(c, "logout", EmptyDict, NoRequest, NoResult, ReturnNone)
    /\ UNCHANGED <<STD_PARAMS, email, password, token, timeout>>

Next ==
    \E c \in Clients :
        \/ PyAdtSecureHome(c)
        \/ login(c)
        \/ check_app_version(c)
        \/ site_notifications(c)
        \/ get_sync_info(c)
        \/ get_state_info(c)
        \/ get_notification_subscriptions(c)
        \/ get_user_preferences(c)
        \/ get_security_companies(c)
        \/ store_gcm_registrationid(c)
        \/ set_user_preference(c)
        \/ arm_site(c)
        \/ close_session(c)
        \/ logout(c)

Spec == Init /\ [][Next]_vars

(***************************************************************************)
(* Properties                                                              *)
(***************************************************************************)

\* The step just taken was a call, recorded in last'.
Called == calls' = calls + 1

\* The items an operation stores in its parameters besides the token.
ExtraFields(op) ==
    CASE op = "login" -> {"email", "password"}
      [] op = "check_app_version" -> {"clientImei"}
      [] op = "store_gcm_registrationid" -> {"gcmId"}
      [] op = "set_user_preference" -> {"siteId", "name", "preference_value"}
      [] op = "arm_site" -> {"arm", "pin", "partitionId", "siteId"}
      [] OTHER -> {}

Other(c) == CHOOSE d \in Clients : d # c

\* The credentials and tokens that belong to client c.
ValuesOf(c) == {CtorEmail(c), CtorPassword(c), CtorToken(c), ServerToken(c)} \ {None}

IsSuccessStatus(status_code) == 200 <= status_code /\ status_code <= 299

\* The response of the latest call has a success status and a JSON body
\* whose status field is not SUCCESS.
FailedPayload(call) ==
    /\ call.result.kind = "response"
    /\ IsSuccessStatus(call.result.status_code)
    /\ json(call.result.text).ok
    /\ "status" \in DOMAIN json(call.result.text).value
    /\ json(call.result.text).value["status"] # "SUCCESS"

\* The response of the latest call has a success status and a JSON body
\* with status SUCCESS and a token.
SuccessPayloadWithToken(call) ==
    /\ call.result.kind = "response"
    /\ IsSuccessStatus(call.result.status_code)
    /\ json(call.result.text).ok
    /\ {"status", "token"} \subseteq DOMAIN json(call.result.text).value
    /\ json(call.result.text).value["status"] = "SUCCESS"

\* C1: the parameters a call sends hold the base fields, the token and the
\* call's own extra fields, and nothing an earlier call stored.
C1_NoLeakBetweenCalls ==
    last.request.made =>
        /\ BaseFields \cup ExtraFields(last.op) \subseteq DOMAIN last.request.params
        /\ DOMAIN last.request.params \subseteq
              BaseFields \cup {"token"} \cup ExtraFields(last.op)

\* C2: a success status with a JSON body whose status is not SUCCESS makes
\* the call raise PyAdtSecureHomeError carrying the operation's prefix and
\* the whole parsed payload; nothing is returned and no token is stored.
C2_FailedStatusRaises ==
    [][(Called /\ FailedPayload(last')) =>
          /\ last'.outcome =
                Raise("PyAdtSecureHomeError", ErrorPrefix(last'.op), "",
                      json(last'.result.text))
          /\ token' = token]_vars

C2_Witness ==
    /\ last.op = "login"
    /\ last.client = "B"
    /\ FailedPayload(last)
    /\ last.outcome.kind = "raise"
    /\ last.outcome.payload.value["status"] = "FAILED"
    /\ token["B"] = CtorToken("B")

\* C3: a connection failure of the transport (unreachable host, proxy
\* failure) reaches the caller as InvalidURL, with no payload.
C3_ConnectionFailureIsInvalidURL ==
    (last.request.made /\ last.result.kind = "exception"
        /\ "ConnectionError" \in Mro(last.result.exc)) =>
        /\ last.outcome.kind = "raise"
        /\ last.outcome.exc = "InvalidURL"
        /\ last.outcome.payload = NoJson

C3_Witness ==
    /\ last.op = "set_user_preference"
    /\ last.request.made
    /\ last.result.exc = "ProxyError"
    /\ last.outcome.exc = "InvalidURL"

\* C4: a response whose status is 400 or more raises HTTPError whatever its
\* body is: the status is looked at before the body is parsed.
C4_HttpErrorBeforeParsing ==
    (last.request.made /\ last.result.kind = "response"
        /\ last.result.status_code >= 400) =>
        /\ last.outcome.kind = "raise"
        /\ last.outcome.exc = "HTTPError"
        /\ last.outcome.payload = NoJson

C4_Witness ==
    /\ last.op = "get_state_info"
    /\ last.result.status_code = 400
    /\ last.result.text = BodyNotJson
    /\ last.outcome.exc = "HTTPError"

\* C5: login leaves everything of the clients but the caller's token as it
\* was; on a success status with a SUCCESS body holding token t it stores t
\* as the caller's token and returns the whole parsed body.
C5_LoginStoresToken ==
    [][(Called /\ last'.op = "login") =>
          /\ UNCHANGED <<email, password, timeout, session, sessions>>
          /\ \A d \in Clients \ {last'.client} : token'[d] = token[d]
          /\ SuccessPayloadWithToken(last') =>
                /\ token'[last'.client] = json(last'.result.text).value["token"]
                /\ last'.outcome = Return(json(last'.result.text))]_vars

C5_Witness ==
    /\ last.op = "login"
    /\ last.client = "B"
    /\ SuccessPayloadWithToken(last)
    /\ last.outcome.kind = "return"
    /\ token["B"] = ServerToken("B")
    /\ token["B"] # CtorToken("B")

\* C6: set_user_preference with a store_for that is neither Arm nor Bypass
\* raises PyAdtSecureHomeError without making a request and changes neither
\* the clients nor the base parameters.
C6_InvalidStoreForFailsFast ==
    [][(Called /\ last'.op = "set_user_preference"
            /\ last'.args["store_for"] \notin {"Arm", "Bypass"}) =>
          /\ ~last'.request.made
          /\ last'.outcome.kind = "raise"
          /\ last'.outcome.exc = "PyAdtSecureHomeError"
          /\ UNCHANGED <<STD_PARAMS, email, password, token, timeout, session,
                         sessions>>]_vars

C6_Witness ==
    /\ last.op = "set_user_preference"
    /\ last.args["store_for"] = None
    /\ ~last.request.made
    /\ last.outcome.exc = "PyAdtSecureHomeError"
    /\ calls = 2

SessionIsOpen(c) ==
    /\ session[c] \in DOMAIN sessions
    /\ ~sessions[session[c]].closed
    /\ "REQUEST_HEADER" \in sessions[session[c]].headers

\* C7: every client holds an open session at all times, each request goes
\* over the caller's open session, and logout and close_session close the
\* caller's session, install a new one, return normally and leave email,
\* password, token and timeout alone.
C7_SessionLifecycle ==
    /\ \A c \in Clients : SessionIsOpen(c)
    /\ [][/\ \A c \in Clients : SessionIsOpen(c)'
          /\ (Called /\ last'.request.made) =>
                /\ last'.request.session = session[last'.client]
                /\ SessionIsOpen(last'.client)
          /\ (Called /\ last'.op \in {"logout", "close_session"}) =>
                /\ sessions'[session[last'.client]].closed
                /\ session'[last'.client] \notin DOMAIN sessions
                /\ last'.outcome = ReturnNone
                /\ UNCHANGED <<email, password, token, timeout, STD_PARAMS>>
          /\ (Called /\ last'.op = "__init__") =>
                /\ session'[last'.client] \notin DOMAIN sessions
                /\ last'.outcome = ReturnNone]_vars

C7_Witness ==
    /\ last.request.made
    /\ last.client = "A"
    /\ last.request.session = 3
    /\ sessions[1].closed
    /\ ~sessions[3].closed
    /\ last.outcome.kind = "return"

\* C8: a response whose status is not 2xx raises HTTPError; a 3xx response
\* is never parsed or returned.
C8_Non2xxIsHttpError ==
    (last.request.made /\ last.result.kind = "response"
        /\ ~IsSuccessStatus(last.result.status_code)) =>
        /\ last.outcome.kind = "raise"
        /\ last.outcome.exc = "HTTPError"

\* C9: a timeout of the request, while connecting or while waiting for the
\* response, reaches the caller as InvalidURL.
C9_TimeoutIsInvalidURL ==
    (last.request.made /\ last.result.kind = "exception"
        /\ "Timeout" \in Mro(last.result.exc)) =>
        /\ last.outcome.kind = "raise"
        /\ last.outcome.exc = "InvalidURL"

\* No request of a client carries a credential or token of the other client.
RequestsIsolated ==
    last.request.made =>
        \A k \in DOMAIN last.request.params :
            last.request.params[k] \notin ValuesOf(Other(last.client))

\* C10: two clients do not interfere: no request of one carries a value of
\* the other, and the module-level base parameters stay as imported.
C10_ClientsIndependent ==
    /\ RequestsIsolated
    /\ STD_PARAMS = StdParamsInit

====
